---- MODULE Spec2Model ----
(***************************************************************************)
(* Model of pkg/vault/vault.go: the bootstrap engine (New, Init, Unseal)   *)
(* and the reconciliation engine (Configure) of bank-vaults, together with *)
(* the two collaborators it talks to: the KeyStore (kv.Service) and the    *)
(* Vault server behind the Admin API client (api.Client).                  *)
(*                                                                         *)
(* Every call the engine makes to a collaborator is one step, so that a    *)
(* failure of that call (a backend or transport error) can be chosen at    *)
(* exactly that point. Strings built by fmt.Sprint are modelled as tuples  *)
(* of their parts: "vault-unseal-"+i is <<"vault-unseal-", i>>.            *)
(***************************************************************************)
EXTENDS Integers, Sequences, FiniteSets, TLC

VARIABLES
    config,       \* vault.config: the Config handed to New
    constructed,  \* "none" before New, "ok" after New returned a vault, "error" otherwise
    keyStore,     \* the KeyStore's contents: key name -> stored bytes
    server,       \* the Vault server's state behind the Admin API
    token,        \* the Admin API client's active credential (cl.SetToken)
    declared,     \* the declarative configuration (viper): auth, policies, secrets
    op,           \* the top-level operation in progress: "", "Init", "Unseal", "Configure"
    pc,           \* the position inside the operation
    loc,          \* the operation's local variables
    result,       \* what the last operation returned
    log,          \* the collaborator calls made by the operation in progress, in order
    pre,          \* the state the operation in progress was called in
    hist          \* what earlier operations did (ghost)

vars == <<config, constructed, keyStore, server, token, declared, op, pc, loc, result, log, pre, hist>>

-----------------------------------------------------------------------------
(* Bounds *)

MaxShares == 3    \* SecretShares ranges over 1..MaxShares
MaxCalls == 2     \* the calls of keyStoreSet one writer makes

-----------------------------------------------------------------------------
(* Values: byte strings and credentials are <<kind, index>> *)

Share(j) == <<"share", j>>          \* the j-th key share the server issues
TmpRoot == <<"server-root", 0>>     \* the root credential the server generates
FixedRoot == <<"fixed-root", 0>>    \* an operator-supplied root identifier
Stale == <<"stale", 0>>             \* bytes left in the KeyStore by something earlier
NoToken == <<"", 0>>                \* the empty string

unsealKeyForID(i) == <<"vault-unseal-", i>>
rootTokenKey == <<"vault-root", 0>>
testKey == <<"vault-test", 0>>

-----------------------------------------------------------------------------
(* Results *)

NoResult == [ok |-> FALSE, msg |-> "none", cause |-> ""]
Success == [ok |-> TRUE, msg |-> "", cause |-> ""]
Failure(msg, cause) == [ok |-> FALSE, msg |-> msg, cause |-> cause]

Call(name, arg, out) == [op |-> name, arg |-> arg, out |-> out]

Calls(name) == {k \in 1..Len(log) : log[k].op = name}
CallsOK(name) == {k \in 1..Len(log) : log[k].op = name /\ log[k].out = "ok"}

-----------------------------------------------------------------------------
(* The KeyStore (kv.Service): Get, Set, Test *)

\* Get(key): the bytes, a NotFoundError, or any other (backend) error
KeyStoreGet(ks, key) ==
    (IF key \in DOMAIN ks
        THEN {[err |-> "", val |-> ks[key]]}
        ELSE {[err |-> "NotFound", val |-> NoToken]})
    \cup {[err |-> "Backend", val |-> NoToken]}

\* Set(key, val): stores the bytes, or fails and stores nothing
KeyStoreSetRaw(ks, key, val) ==
    {[err |-> "", ks |-> [n \in DOMAIN ks \cup {key} |-> IF n = key THEN val ELSE ks[n]]],
     [err |-> "Backend", ks |-> ks]}

\* Test(key): a round trip of a disposable value, which leaves nothing behind
KeyStoreTest(ks, key) == {"", "Backend"}

\* mutant: any error of the Get counts as not found
keyStoreNotFound_anyError(got) ==
    IF got.err # ""
        THEN [notFound |-> TRUE, err |-> ""]
        ELSE [notFound |-> FALSE, err |-> got.err]

\* vault.keyStoreNotFound: (notFound, err) from the error of a Get
keyStoreNotFound(got) ==
    IF got.err = "NotFound"
        THEN [notFound |-> TRUE, err |-> ""]
        ELSE [notFound |-> FALSE, err |-> got.err]

\* mutant: the value is set when the Get found one, too
keyStoreSetVerdict_overwrite(nf) ==
    IF nf.notFound \/ nf.err = "" THEN "set" ELSE "error"

\* the three branches of vault.keyStoreSet
keyStoreSetVerdict(nf) ==
    IF nf.notFound THEN "set"
    ELSE IF nf.err = "" THEN "exists"
    ELSE "error"

\* vault.keyStoreSet: Get, then Set only if the Get said NotFound.
\* The outcomes: the error returned, the KeyStore afterwards, the calls made.
keyStoreSet(ks, key, val) ==
    UNION {
        LET nf == keyStoreNotFound(got) IN
        IF keyStoreSetVerdict(nf) = "set"
            THEN {[err |-> s.err, ks |-> s.ks,
                   calls |-> <<Call("ks.Get", key, "NotFound"),
                               Call("ks.Set", key, IF s.err = "" THEN "ok" ELSE "err")>>]
                  : s \in KeyStoreSetRaw(ks, key, val)}
            ELSE IF keyStoreSetVerdict(nf) = "exists"
                THEN {[err |-> "AlreadyExists", ks |-> ks,
                       calls |-> <<Call("ks.Get", key, "ok")>>]}
                ELSE {[err |-> nf.err, ks |-> ks,
                       calls |-> <<Call("ks.Get", key, "err")>>]}
        : got \in KeyStoreGet(ks, key)}

-----------------------------------------------------------------------------
(* The Vault server behind the Admin API *)

EmptyMap == [x \in {} |-> ""]

FreshServer ==
    [initialized |-> FALSE, sealed |-> TRUE, shares |-> 0, threshold |-> 0,
     progress |-> {}, tokens |-> {}, auths |-> EmptyMap, mounts |-> EmptyMap]

\* sys/init: splits the master key into n shares, seals, issues a root credential
ServerInit(s, n, t) ==
    [s EXCEPT !.initialized = TRUE, !.sealed = TRUE, !.shares = n, !.threshold = t,
              !.progress = {}, !.tokens = {TmpRoot}]

\* sys/unseal with one key: the possible answers and the server afterwards.
\* A transport error leaves the server as it was.
ServerUnseal(s, key) ==
    {[err |-> "Transport", sealed |-> TRUE, progress |-> 0, server |-> s]}
    \cup
    (IF ~s.initialized THEN {}
     ELSE IF ~s.sealed
        THEN {[err |-> "", sealed |-> FALSE, progress |-> 0, server |-> s]}
     ELSE IF key[1] = "share" /\ key[2] \in 0..(s.shares - 1)
        THEN LET p == s.progress \cup {key[2]} IN
             IF Cardinality(p) >= s.threshold
                THEN {[err |-> "", sealed |-> FALSE, progress |-> 0,
                       server |-> [s EXCEPT !.sealed = FALSE, !.progress = {}]]}
                ELSE {[err |-> "", sealed |-> TRUE, progress |-> Cardinality(p),
                       server |-> [s EXCEPT !.progress = p]]}
     ELSE \* not a share of this server: the accumulated shares are dropped
          {[err |-> "", sealed |-> TRUE, progress |-> 0,
            server |-> [s EXCEPT !.progress = {}]]})

\* a request is served only when the server is unsealed and the client's
\* credential is one the server accepts
Authorized(s, tok) == s.initialized /\ ~s.sealed /\ tok \in s.tokens

-----------------------------------------------------------------------------
(* Configurations *)

Configs ==
    [SecretShares : 1..MaxShares, SecretThreshold : 1..(MaxShares + 1),
     InitRootToken : {NoToken, FixedRoot}, StoreRootToken : BOOLEAN]

\* the key names something earlier may have left a value under
EarlierKeys(c) ==
    {rootTokenKey, testKey} \cup {unsealKeyForID(i) : i \in 0..c.SecretShares}

NoLoc == [i |-> 0, keys |-> <<>>, resp |-> [Keys |-> <<>>, RootToken |-> NoToken],
          rootToken |-> NoToken, k |-> NoToken,
          existingAuths |-> EmptyMap, ai |-> 0, pi |-> 0, si |-> 0, queue |-> <<>>]

-----------------------------------------------------------------------------
(* Calling and returning *)

Idle == pc \in {"idle", "returned"}

\* a top-level operation is called: its log is empty and the state is noted
Enter(name, first) ==
    /\ Idle
    /\ constructed = "ok"
    /\ op' = name
    /\ pc' = first
    /\ loc' = NoLoc
    /\ log' = <<>>
    /\ result' = NoResult
    /\ pre' = [keyStore |-> keyStore, server |-> server, token |-> token]

Return(res) ==
    /\ pc' = "returned"
    /\ result' = res

-----------------------------------------------------------------------------
(* New *)

\* mutant: a threshold equal to the number of shares is refused too
NewVerdict_strict(c) == IF c.SecretShares <= c.SecretThreshold THEN "error" ELSE "ok"

\* if config.SecretShares < config.SecretThreshold { return nil, errors.New(...) }
NewVerdict(c) == IF c.SecretShares < c.SecretThreshold THEN "error" ELSE "ok"

\* New: refuses a threshold bigger than the number of shares, makes no call
New ==
    /\ constructed = "none"
    /\ constructed' = NewVerdict(config)
    /\ UNCHANGED <<config, keyStore, server, token, declared, op, pc, loc, result, log, pre, hist>>

-----------------------------------------------------------------------------
(* Unseal *)

UnsealCall ==
    /\ Enter("Unseal", "unseal_get")
    /\ UNCHANGED <<config, constructed, keyStore, server, token, declared, hist>>

\* k, err := v.keyStore.Get(v.unsealKeyForID(i))
UnsealGet ==
    /\ pc = "unseal_get"
    /\ \E got \in KeyStoreGet(keyStore, unsealKeyForID(loc.i)) :
        IF got.err # ""
            THEN /\ log' = Append(log, Call("ks.Get", unsealKeyForID(loc.i), "err"))
                 /\ Return(Failure("unable to get key", got.err))
                 /\ loc' = loc
            ELSE /\ log' = Append(log, Call("ks.Get", unsealKeyForID(loc.i), "ok"))
                 /\ loc' = [loc EXCEPT !.k = got.val]
                 /\ pc' = "unseal_submit"
                 /\ result' = result
    /\ UNCHANGED <<config, constructed, keyStore, server, token, declared, op, pre, hist>>

\* mutant: the progress is looked at before the seal
UnsealVerdict_progressFirst(r) ==
    IF r.err # "" THEN "error"
    ELSE IF r.progress = 0 THEN "reset"
    ELSE IF ~r.sealed THEN "done"
    ELSE "next"

\* mutant: a progress of 0 does not end the loop
UnsealVerdict_noReset(r) ==
    IF r.err # "" THEN "error"
    ELSE IF ~r.sealed THEN "done"
    ELSE "next"

\* mutant: any answer without an error ends the loop with success
UnsealVerdict_anyAnswer(r) ==
    IF r.err # "" THEN "error" ELSE "done"

\* what the loop body does with the answer to an unseal request
UnsealVerdict(r) ==
    IF r.err # "" THEN "error"
    ELSE IF ~r.sealed THEN "done"
    ELSE IF r.progress = 0 THEN "reset"
    ELSE "next"

\* resp, err := v.cl.Sys().Unseal(string(k)), and the three ways out of the loop body
UnsealSubmit ==
    /\ pc = "unseal_submit"
    /\ \E r \in ServerUnseal(server, loc.k) :
        /\ server' = r.server
        /\ log' = Append(log, [op |-> "sys.Unseal", arg |-> loc.k,
                               out |-> IF r.err # "" THEN "err"
                                       ELSE IF r.sealed THEN "sealed" ELSE "unsealed",
                               progress |-> r.progress, index |-> loc.i])
        /\ IF UnsealVerdict(r) = "error"
              THEN Return(Failure("fail to send unseal request to vault", r.err)) /\ loc' = loc
           ELSE IF UnsealVerdict(r) = "done"
              THEN Return(Success) /\ loc' = loc
           ELSE IF UnsealVerdict(r) = "reset"
              THEN Return(Failure("failed to unseal vault. progress reset to 0", "")) /\ loc' = loc
           ELSE /\ loc' = [loc EXCEPT !.i = loc.i + 1]
                /\ pc' = "unseal_get"
                /\ result' = result
    /\ UNCHANGED <<config, constructed, keyStore, token, declared, op, pre, hist>>

-----------------------------------------------------------------------------
(* Init *)

InitCall ==
    /\ Enter("Init", "init_status")
    /\ UNCHANGED <<config, constructed, keyStore, server, token, declared, hist>>

\* mutant: the answer of InitStatus is ignored
InitStatusVerdict_ignored(initialized) == "initialize"

\* if initialized { return nil }
InitStatusVerdict(initialized) == IF initialized THEN "return" ELSE "initialize"

\* initialized, err := v.cl.Sys().InitStatus()
InitStatus ==
    /\ pc = "init_status"
    /\ \/ /\ log' = Append(log, Call("sys.InitStatus", <<>>, "err"))
          /\ Return(Failure("error testing if vault is initialized", "Transport"))
       \/ /\ log' = Append(log, Call("sys.InitStatus", <<>>, "ok"))
          /\ IF InitStatusVerdict(server.initialized) = "return"
                THEN Return(Success)
                ELSE pc' = "init_test" /\ result' = result
    /\ UNCHANGED <<config, constructed, keyStore, server, token, declared, op, loc, pre, hist>>

\* the key names Init looks for before initializing: the root token key and
\* the unseal keys of the indices 0..SecretShares, both ends included
PrecheckKeys(c) ==
    <<rootTokenKey>> \o [j \in 1..(c.SecretShares + 1) |-> unsealKeyForID(j - 1)]

\* mutant: the error of Test is dropped
TestVerdict_dropped(err) == "initialize"

\* if err != nil { return fmt.Errorf("error testing keystore before init...") }
TestVerdict(err) == IF err # "" THEN "return" ELSE "initialize"

\* err = v.keyStore.Test(v.testKey()), then the list of keys to look for
InitTest ==
    /\ pc = "init_test"
    /\ \E err \in KeyStoreTest(keyStore, testKey) :
        IF TestVerdict(err) = "return"
            THEN /\ log' = Append(log, Call("ks.Test", testKey, "err"))
                 /\ Return(Failure("error testing keystore before init", err))
                 /\ loc' = loc
            ELSE /\ log' = Append(log, Call("ks.Test", testKey, IF err = "" THEN "ok" ELSE "err"))
                 /\ loc' = [loc EXCEPT !.keys = PrecheckKeys(config), !.i = 1]
                 /\ pc' = "init_precheck"
                 /\ result' = result
    /\ UNCHANGED <<config, constructed, keyStore, server, token, declared, op, pre, hist>>

\* what the loop over the keys does with one answer of keyStoreNotFound
PrecheckVerdict(nf) ==
    IF nf.notFound /\ nf.err # "" THEN "failed"
    ELSE IF ~nf.notFound /\ nf.err = "" THEN "exists"
    ELSE "next"

\* one iteration of "test every key"
InitPrecheck ==
    /\ pc = "init_precheck"
    /\ loc.i <= Len(loc.keys)
    /\ \E got \in KeyStoreGet(keyStore, loc.keys[loc.i]) :
        LET verdict == PrecheckVerdict(keyStoreNotFound(got)) IN
        /\ log' = Append(log, Call("ks.Get", loc.keys[loc.i],
                                   IF got.err = "" THEN "ok" ELSE got.err))
        /\ IF verdict = "failed"
              THEN Return(Failure("error before init: checking key failed", got.err)) /\ loc' = loc
           ELSE IF verdict = "exists"
              THEN Return(Failure("error before init: keystore value already exists", "")) /\ loc' = loc
           ELSE /\ loc' = [loc EXCEPT !.i = loc.i + 1]
                /\ pc' = IF loc.i = Len(loc.keys) THEN "init_server" ELSE "init_precheck"
                /\ result' = result
    /\ UNCHANGED <<config, constructed, keyStore, server, token, declared, op, pre, hist>>

\* resp, err := v.cl.Sys().Init(...)
InitServer ==
    /\ pc = "init_server"
    /\ \/ /\ log' = Append(log, Call("sys.Init", <<>>, "err"))
          /\ Return(Failure("error initializing vault", "Transport"))
          /\ UNCHANGED <<server, loc, hist>>
       \/ /\ ~server.initialized
          /\ log' = Append(log, Call("sys.Init", <<>>, "ok"))
          /\ server' = ServerInit(server, config.SecretShares, config.SecretThreshold)
          /\ loc' = [loc EXCEPT
                        !.resp = [Keys |-> [j \in 1..config.SecretShares |-> Share(j - 1)],
                                  RootToken |-> TmpRoot],
                        !.i = 0]
          /\ hist' = [hist EXCEPT !.initializing = TRUE]
          /\ pc' = "init_store"
          /\ result' = result
    /\ UNCHANGED <<config, constructed, keyStore, token, declared, op, pre>>

\* mutant: the fixed root identifier is not set up
AfterShares_skipped == "init_root"

\* where Init goes once the shares are stored
AfterShares == IF config.InitRootToken # NoToken THEN "init_wait" ELSE "init_root"

\* mutant: every name gets the first share
ShareToStore_first(resp, i) == resp.Keys[1]

\* the i-th pair of "for i, k := range resp.Keys"
ShareToStore(resp, i) == resp.Keys[i + 1]

\* one iteration of "for i, k := range resp.Keys": keyStoreSet(unsealKeyForID(i), k);
\* after the last one, rootToken := resp.RootToken
InitStoreKey ==
    /\ pc = "init_store"
    /\ IF loc.i >= Len(loc.resp.Keys)
          THEN /\ loc' = [loc EXCEPT !.rootToken = loc.resp.RootToken]
               /\ pc' = AfterShares
               /\ UNCHANGED <<keyStore, log, result>>
          ELSE \E r \in keyStoreSet(keyStore, unsealKeyForID(loc.i), ShareToStore(loc.resp, loc.i)) :
               /\ keyStore' = r.ks
               /\ log' = log \o r.calls
               /\ IF r.err # ""
                     THEN Return(Failure("error storing unseal key", r.err)) /\ loc' = loc
                     ELSE /\ loc' = [loc EXCEPT !.i = loc.i + 1]
                          /\ pc' = "init_store"
                          /\ result' = result
    /\ UNCHANGED <<config, constructed, server, token, declared, op, pre, hist>>

\* vault.Sealed: (resp.Sealed, nil), or (false, err) when the query fails
Sealed(s) == {[sealed |-> s.sealed, err |-> ""], [sealed |-> FALSE, err |-> "Transport"]}

\* one turn of the wait loop: leave it when Sealed() says not sealed, else sleep
InitWait ==
    /\ pc = "init_wait"
    /\ \E r \in Sealed(server) :
        pc' = IF ~r.sealed THEN "init_orphan" ELSE "init_wait"
    /\ UNCHANGED <<config, constructed, keyStore, server, token, declared, op, loc, result, log, pre, hist>>

\* v.cl.SetToken(resp.RootToken), then Auth().Token().CreateOrphan with the fixed ID
InitCreateOrphan ==
    /\ pc = "init_orphan"
    /\ token' = loc.resp.RootToken
    /\ \/ /\ log' = Append(log, Call("token.CreateOrphan", config.InitRootToken, "err"))
          /\ Return(Failure("unable to setup requested root token", "Transport"))
          /\ UNCHANGED server
       \/ /\ Authorized(server, token')
          /\ log' = Append(log, Call("token.CreateOrphan", config.InitRootToken, "ok"))
          /\ server' = [server EXCEPT !.tokens = @ \cup {config.InitRootToken}]
          /\ pc' = "init_revoke"
          /\ result' = result
    /\ UNCHANGED <<config, constructed, keyStore, declared, op, loc, pre, hist>>

\* Auth().Token().RevokeSelf(resp.RootToken), then rootToken = InitRootToken
InitRevoke ==
    /\ pc = "init_revoke"
    /\ \/ /\ log' = Append(log, Call("token.RevokeSelf", loc.resp.RootToken, "err"))
          /\ Return(Failure("unable to revoke temporary root token", "Transport"))
          /\ UNCHANGED <<server, loc>>
       \/ /\ Authorized(server, token)
          /\ log' = Append(log, Call("token.RevokeSelf", loc.resp.RootToken, "ok"))
          /\ server' = [server EXCEPT !.tokens = @ \ {loc.resp.RootToken}]
          /\ loc' = [loc EXCEPT !.rootToken = config.InitRootToken]
          /\ pc' = "init_root"
          /\ result' = result
    /\ UNCHANGED <<config, constructed, keyStore, token, declared, op, pre, hist>>

\* the bytes Init stores under the root token key
StoredRootToken(l) == l.resp.RootToken

\* if StoreRootToken: keyStoreSet(rootTokenKey, ...); then return nil
InitStoreRoot ==
    /\ pc = "init_root"
    /\ IF config.StoreRootToken
          THEN \E r \in keyStoreSet(keyStore, rootTokenKey, StoredRootToken(loc)) :
               /\ keyStore' = r.ks
               /\ log' = log \o r.calls
               /\ IF r.err # ""
                     THEN Return(Failure("error storing root token", r.err))
                     ELSE Return(Success)
          ELSE /\ Return(Success)
               /\ UNCHANGED <<keyStore, log>>
    /\ hist' = [hist EXCEPT !.initOK = result'.ok]
    /\ UNCHANGED <<config, constructed, server, token, declared, op, loc, pre>>

\* something else unseals the server while Init waits for it
ExternalUnseal ==
    /\ pc = "init_wait"
    /\ server.initialized /\ server.sealed
    /\ server' = [server EXCEPT !.sealed = FALSE, !.progress = {}]
    /\ UNCHANGED <<config, constructed, keyStore, token, declared, op, pc, loc, result, log, pre, hist>>

-----------------------------------------------------------------------------
(* The declarative configuration *)

\* the orders in which a range over a Go map with these keys can visit them
RECURSIVE Orders(_)
Orders(S) ==
    IF S = {} THEN {<<>>}
    ELSE UNION {{<<x>> \o rest : rest \in Orders(S \ {x})} : x \in S}

RECURSIVE Flatten(_)
Flatten(ss) == IF ss = <<>> THEN <<>> ELSE Head(ss) \o Flatten(Tail(ss))

\* the key a mount is listed under: its path followed by a slash
Slash(path) == <<path, "/">>

AuthMethod(type, hasPath, path, roles, map, groups, users) ==
    [type |-> type, hasPath |-> hasPath, path |-> path, roles |-> roles,
     map |-> map, groups |-> groups, users |-> users]

SecretEngine(type, hasPath, path, configuration) ==
    [type |-> type, hasPath |-> hasPath, path |-> path, configuration |-> configuration]

\* path := type, unless the spec has a "path" entry
ResolvedPath(m) == IF m.hasPath THEN m.path ELSE m.type

\* mutant: a mount at the path counts, whatever its type
AuthExists_anyType(existingAuths, path, type) == Slash(path) \in DOMAIN existingAuths

\* "Check and skip existing auth mounts"
AuthExists(existingAuths, path, type) ==
    /\ Slash(path) \in DOMAIN existingAuths
    /\ existingAuths[Slash(path)] = type

\* mutant: the path is looked up without its slash
MountMissing_noSlash(mounts, path) == <<path>> \notin DOMAIN mounts

\* mounts[path+"/"] == nil
MountMissing(mounts, path) == Slash(path) \notin DOMAIN mounts

Write(path) == [kind |-> "write", path |-> path]

\* v.kubernetesAuthConfig(path): two files are read, then auth/<path>/config is written
kubernetesAuthConfig(path) == <<[kind |-> "files", path |-> <<"auth", path, "config">>]>>

\* v.configureKubernetesRoles(roles)
configureKubernetesRoles(roles) ==
    [j \in 1..Len(roles) |-> Write(<<"auth", "kubernetes", "role", roles[j]>>)]

configureGithubConfig == <<Write(<<"auth", "github", "config">>)>>

\* the writes of one mapping type of github: a range over a map
GithubMappingWrites(mappingType, names) ==
    {[j \in 1..Len(o) |-> Write(<<"auth", "github", "map", mappingType, o[j]>>)]
        : o \in Orders(names)}

\* v.configureGithubMappings(mappings): a range over a map of maps
configureGithubMappings(mappings) ==
    {Flatten([j \in 1..Len(cats) |-> inner[cats[j]]]) :
        cats \in Orders(DOMAIN mappings),
        inner \in {f \in [DOMAIN mappings ->
                            UNION {GithubMappingWrites(c, mappings[c]) : c \in DOMAIN mappings}] :
                     \A c \in DOMAIN mappings : f[c] \in GithubMappingWrites(c, mappings[c])}}

configureAwsConfig == <<Write(<<"auth", "aws", "config", "client">>)>>

configureAwsRoles(roles) ==
    [j \in 1..Len(roles) |-> Write(<<"auth", "aws", "role", roles[j]>>)]

configureLdapConfig == <<Write(<<"auth", "ldap", "config">>)>>

\* v.configureLdapMappings(mappingType, mappings): a range over a map
configureLdapMappings(mappingType, names) ==
    {[j \in 1..Len(o) |-> Write(<<"auth", "ldap", mappingType, o[j]>>)] : o \in Orders(names)}

\* the switch on authMethodType: the writes that follow the enabling, in order
AuthWrites(m, path) ==
    IF m.type = "kubernetes"
        THEN {kubernetesAuthConfig(path) \o configureKubernetesRoles(m.roles)}
    ELSE IF m.type = "github"
        THEN {configureGithubConfig \o w : w \in configureGithubMappings(m.map)}
    ELSE IF m.type = "aws"
        THEN {configureAwsConfig \o configureAwsRoles(m.roles)}
    ELSE IF m.type = "ldap"
        THEN {configureLdapConfig \o g \o u :
                g \in configureLdapMappings("groups", m.groups),
                u \in configureLdapMappings("users", m.users)}
    ELSE {<<>>}

\* the nested configuration of a secret engine: a range over the categories (a
\* map), and for each the list of its entries in order, written to
\* path/category/name
SecretWrites(e, path) ==
    {Flatten([j \in 1..Len(cats) |->
                [k \in 1..Len(e.configuration[cats[j]]) |->
                    Write(<<path, cats[j], e.configuration[cats[j]][k]>>)]])
        : cats \in Orders(DOMAIN e.configuration)}

-----------------------------------------------------------------------------
(* Configure *)

ConfigureCall ==
    /\ Enter("Configure", "cfg_root")
    /\ hist' = [hist EXCEPT !.prevCfg = hist.lastCfg]
    /\ UNCHANGED <<config, constructed, keyStore, server, token, declared>>

\* the deferred v.cl.SetToken("") of Configure
DeferredToken == NoToken

\* a return of Configure after its defers were registered
ConfigureReturn(res) ==
    /\ Return(res)
    /\ token' = DeferredToken
    /\ hist' = [hist EXCEPT !.lastCfg = IF res.ok THEN "ok" ELSE "err"]

\* a call of the Admin API that needs the credential: it can fail, and it is
\* served only when the server accepts the client's credential
Served == Authorized(server, token)

\* rootToken, err := v.keyStore.Get(v.rootTokenKey()); v.cl.SetToken(string(rootToken))
ConfigureGetRoot ==
    /\ pc = "cfg_root"
    /\ \E got \in KeyStoreGet(keyStore, rootTokenKey) :
        IF got.err # ""
            THEN /\ log' = Append(log, Call("ks.Get", rootTokenKey, "err"))
                 /\ Return(Failure("unable to get key", got.err))
                 /\ hist' = [hist EXCEPT !.lastCfg = "err"]
                 /\ UNCHANGED token
            ELSE /\ log' = Append(log, Call("ks.Get", rootTokenKey, "ok"))
                 /\ token' = got.val
                 /\ pc' = "cfg_listauth"
                 /\ UNCHANGED <<result, hist>>
    /\ UNCHANGED <<config, constructed, keyStore, server, declared, op, loc, pre>>

\* existingAuths, err := v.cl.Sys().ListAuth()
ConfigureListAuth ==
    /\ pc = "cfg_listauth"
    /\ \/ /\ log' = Append(log, Call("sys.ListAuth", <<>>, "err"))
          /\ ConfigureReturn(Failure("error listing auth backends vault", "Transport"))
          /\ loc' = loc
       \/ /\ Served
          /\ log' = Append(log, Call("sys.ListAuth", <<>>, "ok"))
          /\ loc' = [loc EXCEPT !.existingAuths = server.auths, !.ai = 1]
          /\ pc' = "cfg_auth"
          /\ UNCHANGED <<result, token, hist>>
    /\ UNCHANGED <<config, constructed, keyStore, server, declared, op, pre>>

\* the head of "for _, authMethod := range authMethods": the path, the check for
\* an existing mount, EnableAuthWithOptions when there is none; after the last
\* auth method the policies follow
ConfigureAuth ==
    /\ pc = "cfg_auth"
    /\ IF loc.ai > Len(declared.auth)
          THEN /\ pc' = "cfg_policy"
               /\ loc' = [loc EXCEPT !.pi = 1]
               /\ UNCHANGED <<server, log, result, token, hist>>
          ELSE LET m == declared.auth[loc.ai]
                   path == ResolvedPath(m)
               IN  IF AuthExists(loc.existingAuths, path, m.type)
                      THEN /\ \E q \in AuthWrites(m, path) : loc' = [loc EXCEPT !.queue = q]
                           /\ pc' = "cfg_auth_write"
                           /\ UNCHANGED <<server, log, result, token, hist>>
                      ELSE \/ /\ log' = Append(log, Call("sys.EnableAuth", path, "err"))
                              /\ ConfigureReturn(Failure("error enabling auth method for vault", "Transport"))
                              /\ UNCHANGED <<server, loc>>
                           \/ /\ Served
                              /\ Slash(path) \notin DOMAIN server.auths
                              /\ log' = Append(log, Call("sys.EnableAuth", path, "ok"))
                              /\ server' = [server EXCEPT !.auths =
                                    [x \in DOMAIN @ \cup {Slash(path)} |->
                                        IF x = Slash(path) THEN m.type ELSE @[x]]]
                              /\ \E q \in AuthWrites(m, path) : loc' = [loc EXCEPT !.queue = q]
                              /\ pc' = "cfg_auth_write"
                              /\ UNCHANGED <<result, token, hist>>
    /\ UNCHANGED <<config, constructed, keyStore, declared, op, pre>>

\* the next write of the auth method's own configuration; after the last one
\* the loop goes on with the next auth method
ConfigureAuthWrite ==
    /\ pc = "cfg_auth_write"
    /\ IF loc.queue = <<>>
          THEN /\ loc' = [loc EXCEPT !.ai = loc.ai + 1]
               /\ pc' = "cfg_auth"
               /\ UNCHANGED <<log, result, token, hist>>
          ELSE LET w == Head(loc.queue) IN
               \/ /\ w.kind = "files"     \* ioutil.ReadFile fails: nothing is written
                  /\ ConfigureReturn(Failure("error configuring auth for vault", "File"))
                  /\ UNCHANGED <<log, loc>>
               \/ /\ log' = Append(log, Call("logical.Write", w.path, "err"))
                  /\ ConfigureReturn(Failure("error configuring auth for vault", "Transport"))
                  /\ loc' = loc
               \/ /\ Served
                  /\ log' = Append(log, Call("logical.Write", w.path, "ok"))
                  /\ loc' = [loc EXCEPT !.queue = Tail(loc.queue)]
                  /\ pc' = "cfg_auth_write"
                  /\ UNCHANGED <<result, token, hist>>
    /\ UNCHANGED <<config, constructed, keyStore, server, declared, op, pre>>

\* v.configurePolicies(): PutPolicy for each policy; then the secret engines
ConfigurePolicy ==
    /\ pc = "cfg_policy"
    /\ IF loc.pi > Len(declared.policies)
          THEN /\ pc' = "cfg_secret"
               /\ loc' = [loc EXCEPT !.si = 1]
               /\ UNCHANGED <<log, result, token, hist>>
          ELSE \/ /\ log' = Append(log, Call("sys.PutPolicy", declared.policies[loc.pi], "err"))
                  /\ ConfigureReturn(Failure("error configuring policies for vault", "Transport"))
                  /\ loc' = loc
               \/ /\ Served
                  /\ log' = Append(log, Call("sys.PutPolicy", declared.policies[loc.pi], "ok"))
                  /\ loc' = [loc EXCEPT !.pi = loc.pi + 1]
                  /\ pc' = "cfg_policy"
                  /\ UNCHANGED <<result, token, hist>>
    /\ UNCHANGED <<config, constructed, keyStore, server, declared, op, pre>>

\* the head of "for _, secretEngine := range secretsEngines": ListMounts, then
\* Mount when the path is not mounted and TuneMount when it is; after the last
\* secret engine Configure returns nil
ConfigureSecret ==
    /\ pc = "cfg_secret"
    /\ IF loc.si > Len(declared.secrets)
          THEN /\ ConfigureReturn(Success)
               /\ UNCHANGED <<server, log, loc>>
          ELSE LET e == declared.secrets[loc.si]
                   path == ResolvedPath(e)
                   listed == Append(log, Call("sys.ListMounts", <<>>, "ok"))
                   call == IF MountMissing(server.mounts, path) THEN "sys.Mount" ELSE "sys.TuneMount"
               IN  \/ /\ log' = Append(log, Call("sys.ListMounts", <<>>, "err"))
                      /\ ConfigureReturn(Failure("error reading mounts from vault", "Transport"))
                      /\ UNCHANGED <<server, loc>>
                   \/ /\ Served
                      /\ log' = Append(listed, Call(call, path, "err"))
                      /\ ConfigureReturn(Failure("error mounting or tuning in vault", "Transport"))
                      /\ UNCHANGED <<server, loc>>
                   \/ /\ Served
                      /\ log' = Append(listed, Call(call, path, "ok"))
                      /\ server' = IF MountMissing(server.mounts, path)
                            THEN [server EXCEPT !.mounts =
                                    [x \in DOMAIN @ \cup {Slash(path)} |->
                                        IF x = Slash(path) THEN e.type ELSE @[x]]]
                            ELSE server
                      /\ \E q \in SecretWrites(e, path) : loc' = [loc EXCEPT !.queue = q]
                      /\ pc' = "cfg_secret_write"
                      /\ UNCHANGED <<result, token, hist>>
    /\ UNCHANGED <<config, constructed, keyStore, declared, op, pre>>

\* mutant: no error is taken for the immutable-entry error
isOverwriteProbihitedError_never(err) == FALSE

\* mutant: every error of a nested write is taken for the immutable-entry error
isOverwriteProbihitedError_always(err) == TRUE

\* isOverwriteProbihitedError: the error text names the immutable entry
isOverwriteProbihitedError(err) == err = "delete them before reconfiguring"

\* the errors a write of a nested configuration entry can come back with
WriteErrors == {"Transport", "delete them before reconfiguring"}

\* the next write of the secret engine's nested configuration; after the last
\* one the loop goes on with the next secret engine
ConfigureSecretWrite ==
    /\ pc = "cfg_secret_write"
    /\ IF loc.queue = <<>>
          THEN /\ loc' = [loc EXCEPT !.si = loc.si + 1]
               /\ pc' = "cfg_secret"
               /\ UNCHANGED <<log, result, token, hist>>
          ELSE LET w == Head(loc.queue) IN
               \/ \E err \in WriteErrors :
                     /\ err = "delete them before reconfiguring" => Served
                     /\ log' = Append(log, Call("logical.Write", w.path, err))
                     /\ IF isOverwriteProbihitedError(err)
                           THEN /\ loc' = [loc EXCEPT !.queue = Tail(loc.queue)]
                                /\ pc' = "cfg_secret_write"
                                /\ UNCHANGED <<result, token, hist>>
                           ELSE /\ ConfigureReturn(Failure("error putting config into vault", err))
                                /\ loc' = loc
               \/ /\ Served
                  /\ log' = Append(log, Call("logical.Write", w.path, "ok"))
                  /\ loc' = [loc EXCEPT !.queue = Tail(loc.queue)]
                  /\ pc' = "cfg_secret_write"
                  /\ UNCHANGED <<result, token, hist>>
    /\ UNCHANGED <<config, constructed, keyStore, server, declared, op, pre>>

-----------------------------------------------------------------------------
(* Declared configurations, after vault-config.yml *)

NoMap == [c \in {} |-> {}]
NoConfiguration == [c \in {} |-> <<>>]

Github == AuthMethod("github", FALSE, "", <<>>, [c \in {"teams", "users"} |->
                IF c = "teams" THEN {"dev"} ELSE {"bonifaido"}], {}, {})
Kubernetes == AuthMethod("kubernetes", FALSE, "", <<"default">>, NoMap, {}, {})
KubernetesAt == AuthMethod("kubernetes", TRUE, "cluster-b", <<"default">>, NoMap, {}, {})
Aws == AuthMethod("aws", FALSE, "", <<"dev-role-iam">>, NoMap, {}, {})
Ldap == AuthMethod("ldap", FALSE, "", <<>>, NoMap, {"developers"}, {"bonifaido"})
LdapAtGithub == AuthMethod("ldap", TRUE, "github", <<>>, NoMap, {}, {})

Kv == SecretEngine("kv", TRUE, "secret", NoConfiguration)
Database == SecretEngine("database", FALSE, "",
                [c \in {"config", "roles"} |->
                    IF c = "config" THEN <<"my-mysql">> ELSE <<"pipeline", "reader">>])
Ssh == SecretEngine("ssh", TRUE, "ssh-client-signer",
                [c \in {"config"} |-> <<"ca">>])

Declared(auth, policies, secrets) ==
    [auth |-> auth, policies |-> policies, secrets |-> secrets]

\* the configuration the bootstrap runs are checked with
BaseDeclared == Declared(<<Github>>, <<"allow_secrets">>, <<Ssh>>)

\* the configurations the reconciliation runs are checked with
DeclaredChoices ==
    {BaseDeclared,
     Declared(<<KubernetesAt, Aws>>, <<"allow_secrets">>, <<Kv, Database>>),
     Declared(<<Ldap, Kubernetes>>, <<>>, <<Database, Ssh>>),
     Declared(<<Github, LdapAtGithub>>, <<"allow_secrets", "readonly">>, <<Kv>>),
     Declared(<<LdapAtGithub>>, <<>>, <<Ssh, Database>>)}

\* what the server has mounted before the first reconciliation
MapOf(key, type) == [x \in {key} |-> type]
ServerMountChoices ==
    {[auths |-> EmptyMap, mounts |-> EmptyMap],
     [auths |-> MapOf(Slash("github"), "github"), mounts |-> MapOf(Slash("secret"), "kv")],
     [auths |-> MapOf(Slash("github"), "ldap"), mounts |-> MapOf(Slash("database"), "database")]}

-----------------------------------------------------------------------------
(* The specifications *)

NoHist == [initializing |-> FALSE, initOK |-> FALSE, lastCfg |-> "none", prevCfg |-> "none"]

\* the KeyStore a first run can meet: empty, with one value left under one of
\* the names by something earlier, or with the root credential and all the
\* shares of an earlier initialization
EarlierKeyStores(c) ==
    {EmptyMap} \cup {MapOf(n, Stale) : n \in EarlierKeys(c)}
    \cup {[n \in EarlierKeys(c) \ {testKey, unsealKeyForID(c.SecretShares)} |-> Stale]}

\* the engine is not constructed yet; the server is fresh
Init ==
    /\ config \in Configs
    /\ constructed = "none"
    /\ keyStore \in EarlierKeyStores(config)
    /\ server = FreshServer
    /\ token = NoToken
    /\ declared = BaseDeclared
    /\ op = ""
    /\ pc = "idle"
    /\ loc = NoLoc
    /\ result = NoResult
    /\ log = <<>>
    /\ pre = [keyStore |-> keyStore, server |-> server, token |-> token]
    /\ hist = NoHist

Next ==
    \/ New
    \/ InitCall \/ InitStatus \/ InitTest \/ InitPrecheck \/ InitServer \/ InitStoreKey
    \/ InitWait \/ InitCreateOrphan \/ InitRevoke \/ InitStoreRoot \/ ExternalUnseal
    \/ UnsealCall \/ UnsealGet \/ UnsealSubmit
    \/ ConfigureCall \/ ConfigureGetRoot \/ ConfigureListAuth \/ ConfigureAuth
    \/ ConfigureAuthWrite \/ ConfigurePolicy \/ ConfigureSecret \/ ConfigureSecretWrite

Spec == Init /\ [][Next]_vars

\* the reconciliation on its own: the server is initialized and unsealed, the
\* KeyStore holds the share and the root credential
InitCfg ==
    /\ config = [SecretShares |-> 1, SecretThreshold |-> 1,
                 InitRootToken |-> NoToken, StoreRootToken |-> TRUE]
    /\ constructed = "ok"
    /\ keyStore = [n \in {unsealKeyForID(0), rootTokenKey} |->
                      IF n = rootTokenKey THEN TmpRoot ELSE Share(0)]
    /\ \E m \in ServerMountChoices :
          server = [ServerInit(FreshServer, 1, 1) EXCEPT
                        !.sealed = FALSE, !.auths = m.auths, !.mounts = m.mounts]
    /\ token = NoToken
    /\ declared \in DeclaredChoices
    /\ op = ""
    /\ pc = "idle"
    /\ loc = NoLoc
    /\ result = NoResult
    /\ log = <<>>
    /\ pre = [keyStore |-> keyStore, server |-> server, token |-> token]
    /\ hist = [NoHist EXCEPT !.initOK = TRUE]

NextCfg ==
    \/ ConfigureCall \/ ConfigureGetRoot \/ ConfigureListAuth \/ ConfigureAuth
    \/ ConfigureAuthWrite \/ ConfigurePolicy \/ ConfigureSecret \/ ConfigureSecretWrite

SpecCfg == InitCfg /\ [][NextCfg]_vars

-----------------------------------------------------------------------------
(* Claims about Init *)

\* the names Init is to write: the root credential's and the unseal keys' of
\* the indices 0..SecretShares-1
TargetKeys(c) == {<<"vault-root", 0>>} \cup {<<"vault-unseal-", i>> : i \in 0..(c.SecretShares - 1)}

SetCalls == Calls("ks.Set")
ServerInitCalls == Calls("sys.Init")

\* C1 (as claimed): when one of the SecretShares + 1 target key names is in the
\* KeyStore as Init is called on a server that is not initialized, Init calls
\* the server's Init operation at no point and writes nothing to the KeyStore.
C1_CollisionNeverInitializes ==
    (op = "Init" /\ ~pre.server.initialized
        /\ TargetKeys(config) \cap DOMAIN pre.keyStore # {})
    => (ServerInitCalls = {} /\ SetCalls = {} /\ keyStore = pre.keyStore)

\* C2: Init on a server that answers "initialized" returns success having made
\* that one call only: no Test, no Get, no Set, no server Init, and the
\* KeyStore is as it was, whatever it holds.
C2_InitializedIsNoOp ==
    (op = "Init" /\ Len(log) >= 1 /\ log[1] = Call("sys.InitStatus", <<>>, "ok")
        /\ pre.server.initialized)
    => /\ pc = "returned"
       /\ result = Success
       /\ Len(log) = 1
       /\ keyStore = pre.keyStore
       /\ server = pre.server

C2_Witness ==
    /\ op = "Init" /\ pc = "returned" /\ result = Success
    /\ pre.server.initialized
    /\ log = <<Call("sys.InitStatus", <<>>, "ok")>>
    /\ DOMAIN keyStore # {}

\* the KeyStore the claim C3 expects after Init: share i under the unseal key
\* of index i, and the root credential if it is to be stored
ExpectedKeyStore(c) ==
    [n \in {<<"vault-unseal-", i>> : i \in 0..(c.SecretShares - 1)}
            \cup (IF c.StoreRootToken THEN {<<"vault-root", 0>>} ELSE {})
        |-> IF n[1] = "vault-root" THEN TmpRoot ELSE Share(n[2])]

\* C3: after Init succeeds on a fresh server with an empty KeyStore and no fixed
\* root identifier, the KeyStore holds exactly: share i under the unseal key of
\* index i for every i < SecretShares, and, when StoreRootToken is set, the
\* root credential under the root key (SecretShares + 1 entries); without
\* StoreRootToken the SecretShares shares and no root entry.
C3_FreshInitStoresShares ==
    (op = "Init" /\ pc = "returned" /\ result.ok
        /\ ~pre.server.initialized /\ DOMAIN pre.keyStore = {}
        /\ config.InitRootToken = NoToken)
    => /\ keyStore = ExpectedKeyStore(config)
       /\ Cardinality(DOMAIN keyStore) =
            config.SecretShares + (IF config.StoreRootToken THEN 1 ELSE 0)

C3_Witness ==
    /\ op = "Init" /\ pc = "returned" /\ result.ok
    /\ ~pre.server.initialized /\ DOMAIN pre.keyStore = {}
    /\ config.InitRootToken = NoToken /\ config.StoreRootToken
    /\ config.SecretShares = 3
    /\ Cardinality(DOMAIN keyStore) = 4

\* C4 (as claimed): when Init with a fixed root identifier and StoreRootToken
\* succeeds, the value under the root key is the fixed identifier.
C4_StoresEffectiveRoot ==
    (op = "Init" /\ pc = "returned" /\ result.ok
        /\ ~pre.server.initialized
        /\ config.InitRootToken # NoToken /\ config.StoreRootToken)
    => (<<"vault-root", 0>> \in DOMAIN keyStore
        /\ keyStore[<<"vault-root", 0>>] = config.InitRootToken)

-----------------------------------------------------------------------------
(* Claims about Unseal *)

\* the log of an Unseal call is Get(0), Unseal, Get(1), Unseal, ...: entry
\* 2j+1 fetches the unseal key of index j and entry 2j+2 submits what was
\* fetched, which is what the KeyStore holds under that name
UnsealLogInOrder ==
    \A n \in 1..Len(log) :
        IF n % 2 = 1
            THEN /\ log[n].op = "ks.Get"
                 /\ log[n].arg = <<"vault-unseal-", (n - 1) \div 2>>
            ELSE /\ log[n].op = "sys.Unseal"
                 /\ log[n].index = (n - 2) \div 2
                 /\ log[n - 1].out = "ok"
                 /\ <<"vault-unseal-", log[n].index>> \in DOMAIN keyStore
                 /\ log[n].arg = keyStore[<<"vault-unseal-", log[n].index>>]

AnsweredUnsealed(e) == e.op = "sys.Unseal" /\ e.out = "unsealed"
AnsweredProgress(e) == e.op = "sys.Unseal" /\ e.out = "sealed" /\ e.progress > 0

\* C5: when the k-th submitted share is answered "not sealed" (and the ones
\* before it "sealed" with a progress above 0), Unseal has fetched and submitted
\* the shares of the indices 0..k-1 in that order and nothing else, and it
\* returns success there: no share of an index >= k is fetched or submitted.
C5_StopsAtQuorum ==
    (op = "Unseal" /\ \E n \in 1..Len(log) : AnsweredUnsealed(log[n]))
    => /\ pc = "returned"
       /\ result = Success
       /\ Len(log) % 2 = 0
       /\ AnsweredUnsealed(log[Len(log)])
       /\ \A n \in 1..(Len(log) - 1) : n % 2 = 0 => AnsweredProgress(log[n])
       /\ UnsealLogInOrder

\* quorum on the second of three stored shares: the third is never fetched
C5_Witness ==
    /\ op = "Unseal" /\ pc = "returned" /\ result = Success
    /\ Len(log) = 4 /\ AnsweredUnsealed(log[4])
    /\ <<"vault-unseal-", 2>> \in DOMAIN keyStore
    /\ pre.server.sealed

FailedStep(e) ==
    \/ e.op = "ks.Get" /\ e.out = "err"
    \/ e.op = "sys.Unseal" /\ e.out = "err"
    \/ e.op = "sys.Unseal" /\ e.out = "sealed" /\ e.progress = 0

\* C6: Unseal stops at the first failing step. A failed Get, an unseal request
\* that comes back with an error, or an answer "sealed, progress 0" at index i
\* is the last call Unseal makes: it returns an error there, and as the calls
\* are made in the order of the indices, no share of an index above i is
\* fetched or submitted.
C6_StopsAtFirstFailure ==
    op = "Unseal"
    => /\ UnsealLogInOrder
       /\ \A n \in 1..Len(log) :
            FailedStep(log[n])
            => (n = Len(log) /\ pc = "returned" /\ ~result.ok)

\* the progress is reset on the first share: two calls, an error, no second share
C6_Witness ==
    /\ op = "Unseal" /\ pc = "returned" /\ ~result.ok
    /\ Len(log) = 2
    /\ log[2].op = "sys.Unseal" /\ log[2].out = "sealed" /\ log[2].progress = 0
    /\ <<"vault-unseal-", 1>> \in DOMAIN keyStore

Submitted == [n \in 1..(Len(log) \div 2) |-> log[2 * n].arg]

\* C7: after the Init that initialized the server (SecretShares = N,
\* SecretThreshold = T <= N, no fixed root identifier) returned success, an
\* Unseal of the still sealed server fails only by an error of the KeyStore
\* backend or of the transport, and when it returns success it has submitted
\* exactly the stored shares 0..T-1, the T-th submission is the one answered
\* "not sealed", and the server is unsealed.
C7_InitThenUnseal ==
    (op = "Unseal" /\ pc = "returned" /\ hist.initOK
        /\ config.InitRootToken = NoToken /\ pre.server.sealed)
    => /\ result.ok \/ result.cause \in {"Backend", "Transport"}
       /\ result.ok =>
            /\ Submitted = [n \in 1..config.SecretThreshold |-> Share(n - 1)]
            /\ AnsweredUnsealed(log[2 * config.SecretThreshold])
            /\ ~server.sealed

C7_Witness ==
    /\ op = "Unseal" /\ pc = "returned" /\ result.ok /\ hist.initOK
    /\ config.InitRootToken = NoToken /\ pre.server.sealed
    /\ config.SecretShares = 3 /\ config.SecretThreshold = 2
    /\ Len(log) = 4 /\ ~server.sealed

-----------------------------------------------------------------------------
(* Claims about Configure *)

\* C8 (as claimed): whenever a Configure call has returned, the client's active
\* credential is empty.
C8_ConfigureLeavesNoCredential ==
    (op = "Configure" /\ pc = "returned") => token = NoToken

Immutable == "delete them before reconfiguring"

\* the auth methods and the secret engines of the declared configuration are on
\* the server, where they are declared to be
DeclaredAuthsEnabled ==
    \A j \in 1..Len(declared.auth) :
        LET m == declared.auth[j]
            at == <<(IF m.hasPath THEN m.path ELSE m.type), "/">>
        IN  at \in DOMAIN server.auths /\ server.auths[at] = m.type

DeclaredSecretsMounted ==
    \A j \in 1..Len(declared.secrets) :
        LET e == declared.secrets[j] IN
        <<(IF e.hasPath THEN e.path ELSE e.type), "/">> \in DOMAIN server.mounts

\* C9: in a Configure run that follows a Configure run which succeeded with the
\* same declared configuration, no enable-auth call and no mount call is made:
\* every declared auth method is on the server at its path with its type, and
\* every declared secret engine is mounted and is tuned, not mounted.
C9_SecondRunEnablesNothing ==
    (op = "Configure" /\ hist.prevCfg = "ok")
    => /\ Calls("sys.EnableAuth") = {}
       /\ Calls("sys.Mount") = {}
       /\ DeclaredAuthsEnabled
       /\ DeclaredSecretsMounted
       /\ \A n \in 1..(Len(log) - 1) :
            log[n] = Call("sys.ListMounts", <<>>, "ok") => log[n + 1].op = "sys.TuneMount"

C9_Witness ==
    /\ op = "Configure" /\ hist.prevCfg = "ok" /\ pc = "returned" /\ result.ok
    /\ Len(declared.auth) = 2
    /\ Cardinality(Calls("sys.TuneMount")) = 2
    /\ DOMAIN pre.server.auths # {}

\* the paths of the nested configuration entries of a secret engine
EngineEntries(e) ==
    LET path == IF e.hasPath THEN e.path ELSE e.type IN
    UNION {{<<path, c, e.configuration[c][k]>> : k \in 1..Len(e.configuration[c])}
                : c \in DOMAIN e.configuration}

ImmutableWrite(x) == x.op = "logical.Write" /\ x.out = Immutable

WrittenTo(prefix) ==
    {log[n].arg : n \in {k \in 1..Len(log) : log[k].op = "logical.Write" /\ log[k].arg[1] = prefix}}

\* C10: a nested configuration write answered with the immutable-entry error
\* does not end Configure and is never the error Configure returns; the
\* entries of the same secret engine that come after it are still to be
\* written (the written entries and the waiting ones are all the engine's
\* entries), and a Configure that returns success has written every nested
\* entry of every declared secret engine.
C10_ImmutableEntrySkipped ==
    op = "Configure"
    => /\ result.cause # Immutable
       /\ (Len(log) > 0 /\ ImmutableWrite(log[Len(log)]))
            => (pc \in {"cfg_secret_write", "cfg_secret"} \/ (pc = "returned" /\ result.ok))
       /\ pc = "cfg_secret_write"
            => LET e == declared.secrets[loc.si] IN
               WrittenTo(IF e.hasPath THEN e.path ELSE e.type)
                    \cup {loc.queue[k].path : k \in 1..Len(loc.queue)} = EngineEntries(e)
       /\ (pc = "returned" /\ result.ok)
            => \A j \in 1..Len(declared.secrets) :
                    EngineEntries(declared.secrets[j]) \subseteq
                        {log[n].arg : n \in Calls("logical.Write")}

\* the first role of the database engine is immutable: the second role and the
\* entry of the ssh engine after it are written, and Configure succeeds
C10_Witness ==
    /\ op = "Configure" /\ pc = "returned" /\ result.ok
    /\ \E n, m, k \in 1..Len(log) :
        /\ n < m /\ m < k
        /\ ImmutableWrite(log[n]) /\ log[n].arg = <<"database", "roles", "pipeline">>
        /\ log[m] = Call("logical.Write", <<"database", "roles", "reader">>, "ok")
        /\ log[k] = Call("logical.Write", <<"ssh-client-signer", "config", "ca">>, "ok")


-----------------------------------------------------------------------------
(* Claims about New and the gates of Init *)

\* C12: when the Test of the KeyStore fails in an Init on a server that is not
\* initialized, Init returns an error there: the failed Test is its last call,
\* the server's Init is not called, nothing is written and the server is as
\* it was.
C12_FailedTestStopsInit ==
    (op = "Init" /\ \E n \in 1..Len(log) : log[n] = Call("ks.Test", <<"vault-test", 0>>, "err"))
    => /\ pc = "returned"
       /\ ~result.ok
       /\ result.msg = "error testing keystore before init"
       /\ Len(log) = 2
       /\ Calls("sys.Init") = {} /\ Calls("ks.Set") = {}
       /\ keyStore = pre.keyStore
       /\ server = pre.server /\ ~server.initialized

C12_Witness ==
    /\ op = "Init" /\ pc = "returned" /\ ~result.ok
    /\ log = <<Call("sys.InitStatus", <<>>, "ok"), Call("ks.Test", <<"vault-test", 0>>, "err")>>
    /\ ~server.initialized

\* C13: New with SecretThreshold > SecretShares returns an error and no engine,
\* so no operation is ever called; with SecretThreshold <= SecretShares it
\* returns an engine. Either way New itself makes no call: right after it no
\* call is logged and the KeyStore, the server and the client's credential are
\* as they were.
C13_NewChecksThreshold ==
    /\ constructed # "none"
        => (constructed = "error" <=> config.SecretThreshold > config.SecretShares)
    /\ constructed = "error" => op = ""
    /\ op = ""
        => (log = <<>> /\ keyStore = pre.keyStore /\ server = FreshServer /\ token = NoToken)

C13_Witness ==
    /\ constructed = "error"
    /\ config.SecretShares = 2 /\ config.SecretThreshold = 3
    /\ op = "" /\ log = <<>> /\ server = FreshServer


\* C14 (as claimed): when a Get of the pre-flight check fails with an error
\* that is not NotFound, Init does not call the server's Init and, once it has
\* returned, has returned an error.
C14_BackendErrorStopsInit ==
    (op = "Init" /\ \E n \in 1..Len(log) : log[n].op = "ks.Get" /\ log[n].out = "Backend")
    => /\ Calls("sys.Init") = {}
       /\ pc = "returned" => ~result.ok

\* C15 (as claimed): Init looks up no name outside the target key set (the root
\* key and the unseal keys of the indices 0..SecretShares-1), and with no
\* target key in the KeyStore it does not end with the collision error.
C15_PrecheckLooksAtTargetKeysOnly ==
    op = "Init"
    => /\ \A n \in 1..Len(log) : log[n].op = "ks.Get" => log[n].arg \in TargetKeys(config)
       /\ (TargetKeys(config) \cap DOMAIN pre.keyStore = {})
            => result.msg # "error before init: keystore value already exists"

\* C16 (as claimed): Init leaves the wait loop, and attempts to create the
\* credential with the fixed identifier, only when the server is unsealed.
C16_WaitEndsUnsealed ==
    (op = "Init" /\ (pc = "init_orphan" \/ Calls("token.CreateOrphan") # {}))
    => ~server.sealed

CreateCalls == Calls("token.CreateOrphan")
RevokeCalls == Calls("token.RevokeSelf")

\* C17: in an Init that initializes the server with a fixed root identifier,
\* the temporary credential is in the client when the create request is made;
\* a revoke request directly follows a create request that succeeded and is
\* made in no other place; a failed create is the last call, Init returns an
\* error and the temporary credential is still accepted by the server; when
\* Init returns success the create and the revoke are both done, the server
\* no longer accepts the temporary credential and accepts the fixed one.
C17_CreateThenRevoke ==
    (op = "Init" /\ ~pre.server.initialized /\ config.InitRootToken # NoToken)
    => /\ CreateCalls # {} => token = TmpRoot
       /\ \A n \in RevokeCalls :
            n > 1 /\ log[n - 1] = Call("token.CreateOrphan", config.InitRootToken, "ok")
       /\ \A n \in CreateCalls :
            log[n].out = "err"
            => /\ n = Len(log) /\ pc = "returned" /\ ~result.ok
               /\ RevokeCalls = {}
               /\ TmpRoot \in server.tokens
       /\ (pc = "returned" /\ result.ok)
            => /\ \E n \in CreateCalls :
                    /\ log[n].out = "ok"
                    /\ log[n + 1] = Call("token.RevokeSelf", TmpRoot, "ok")
               /\ TmpRoot \notin server.tokens
               /\ config.InitRootToken \in server.tokens

C17_Witness ==
    /\ op = "Init" /\ ~pre.server.initialized /\ config.InitRootToken # NoToken
    /\ pc = "returned" /\ result.ok
    /\ server.tokens = {FixedRoot}
    /\ CreateCalls # {} /\ RevokeCalls # {}


-----------------------------------------------------------------------------
(* Claims about the order and the failures of Configure *)

\* the part of Configure a call belongs to: reading the root credential (0),
\* listing the auth mounts (1), the auth methods (2), the policies (3), the
\* secret engines (4)
Phase(e) ==
    IF e.op = "ks.Get" THEN 0
    ELSE IF e.op = "sys.ListAuth" THEN 1
    ELSE IF e.op = "sys.EnableAuth" THEN 2
    ELSE IF e.op = "logical.Write" /\ e.arg[1] = "auth" THEN 2
    ELSE IF e.op = "sys.PutPolicy" THEN 3
    ELSE 4

FailedCall(e) == e.out \in {"err", "Transport"}

\* C18: the calls of a Configure come in the order auth methods, policies,
\* secret engines, and a call that fails (with anything but the tolerated
\* immutable-entry error) is the last call of the Configure, which returns an
\* error there; an error is returned for no other reason than a failed call
\* or a file that cannot be read.
C18_AbortsAtFirstFailure ==
    op = "Configure"
    => /\ \A n, m \in 1..Len(log) : n < m => Phase(log[n]) <= Phase(log[m])
       /\ \A n \in 1..Len(log) :
            FailedCall(log[n]) => (n = Len(log) /\ pc = "returned" /\ ~result.ok)
       /\ (pc = "returned" /\ ~result.ok)
            => (result.cause = "File" \/ (Len(log) > 0 /\ FailedCall(log[Len(log)])))

\* a policy cannot be put: the secret engines that follow are not touched
C18_Witness ==
    /\ op = "Configure" /\ pc = "returned" /\ ~result.ok
    /\ Len(declared.secrets) = 2
    /\ log[Len(log)] = Call("sys.PutPolicy", "allow_secrets", "err")
    /\ \E n \in 1..Len(log) : log[n].op = "logical.Write" /\ log[n].out = "ok"
    /\ Calls("sys.ListMounts") = {}

\* the declared auth methods whose path is taken, as Configure is called, by a
\* mount of another type
Mismatched ==
    {j \in 1..Len(declared.auth) :
        LET m == declared.auth[j]
            at == <<(IF m.hasPath THEN m.path ELSE m.type), "/">>
        IN  at \in DOMAIN pre.server.auths /\ pre.server.auths[at] # m.type}

EnableCallsFor(j) ==
    {n \in Calls("sys.EnableAuth") :
        LET m == declared.auth[j] IN log[n].arg = (IF m.hasPath THEN m.path ELSE m.type)}

\* C19 (as claimed): Configure issues no enable-auth call for the path of a
\* declared auth method at which a mount of another type exists.
C19_NoEnableOnTypeMismatch ==
    op = "Configure" => \A j \in Mismatched : EnableCallsFor(j) = {}

\* C19 (amended): when a mount of another type exists at the path of a declared
\* auth method, Configure does not skip the method: it does not go on to the
\* method's own configuration, and the enable-auth call it issues for the path
\* fails, is its last call and makes it return an error. The mounts that
\* existed when Configure was called are left as they were.
C19_MismatchEndsConfigure ==
    op = "Configure"
    => /\ \A p \in DOMAIN pre.server.auths :
            p \in DOMAIN server.auths /\ server.auths[p] = pre.server.auths[p]
       /\ \A j \in Mismatched :
            /\ loc.ai <= j
            /\ loc.ai = j => pc \in {"cfg_auth", "returned"}
            /\ \A n \in EnableCallsFor(j) :
                /\ log[n].out = "err"
                /\ n = Len(log) /\ pc = "returned" /\ ~result.ok

C19_Witness ==
    /\ op = "Configure" /\ pc = "returned" /\ ~result.ok
    /\ pre.server.auths = MapOf(<<"github", "/">>, "ldap")
    /\ declared.auth[1].type = "github"
    /\ log[Len(log)] = Call("sys.EnableAuth", "github", "err")
    /\ server.auths = pre.server.auths


-----------------------------------------------------------------------------
(* keyStoreSet step by step, with concurrent writers                       *)
(*                                                                         *)
(* Two engines write to the same KeyStore (two Init invocations). The Get  *)
(* and the Set of vault.keyStoreSet are separate calls, so each is a step  *)
(* of its own; loc holds each writer's position and what it has seen.      *)

Writers == {"a", "b"}

\* the names the writers write to
WrittenNames == {rootTokenKey, unsealKeyForID(0)}

NoAnswer == [notFound |-> FALSE, err |-> ""]

IdleWriter ==
    [pc |-> "idle", key |-> rootTokenKey, val |-> NoToken, nf |-> NoAnswer,
     get |-> "none", done |-> <<>>]

\* keyStoreSet(key, val) is called by writer w
SetCall(w) ==
    /\ pc = "writers"
    /\ loc[w].pc = "idle"
    /\ Len(loc[w].done) < MaxCalls
    /\ \E key \in WrittenNames :
        loc' = [loc EXCEPT ![w] = [@ EXCEPT !.pc = "get", !.key = key,
                                            !.val = <<w, Len(loc[w].done) + 1>>,
                                            !.nf = NoAnswer, !.get = "none"]]
    /\ UNCHANGED <<config, constructed, keyStore, server, token, declared, op, pc, result, log, pre, hist>>

\* notFound, err := v.keyStoreNotFound(key)
SetGet(w) ==
    /\ pc = "writers"
    /\ loc[w].pc = "get"
    /\ \E got \in KeyStoreGet(keyStore, loc[w].key) :
        loc' = [loc EXCEPT ![w] = [@ EXCEPT !.pc = "decide", !.nf = keyStoreNotFound(got),
                                            !.get = IF got.err = "" THEN "ok" ELSE got.err]]
    /\ UNCHANGED <<config, constructed, keyStore, server, token, declared, op, pc, result, log, pre, hist>>

\* a finished call: what was asked, what the Get and the Set answered, the error returned
Finished(l, set, err) ==
    [key |-> l.key, val |-> l.val, get |-> l.get, set |-> set, err |-> err]

\* if notFound { return v.keyStore.Set(key, val) } else if err == nil { ... } else { ... }
SetPut(w) ==
    /\ pc = "writers"
    /\ loc[w].pc = "decide"
    /\ LET l == loc[w]
           verdict == keyStoreSetVerdict(l.nf)
       IN  IF verdict = "set"
              THEN \E r \in KeyStoreSetRaw(keyStore, l.key, l.val) :
                    /\ keyStore' = r.ks
                    /\ loc' = [loc EXCEPT ![w] = [@ EXCEPT !.pc = "idle",
                            !.done = Append(@, Finished(l, IF r.err = "" THEN "ok" ELSE "err", r.err))]]
              ELSE /\ keyStore' = keyStore
                   /\ loc' = [loc EXCEPT ![w] = [@ EXCEPT !.pc = "idle",
                            !.done = Append(@, Finished(l, "none",
                                IF verdict = "exists" THEN "AlreadyExists" ELSE l.nf.err))]]
    /\ UNCHANGED <<config, constructed, server, token, declared, op, pc, result, log, pre, hist>>

InitSet ==
    /\ config = [SecretShares |-> 1, SecretThreshold |-> 1,
                 InitRootToken |-> NoToken, StoreRootToken |-> TRUE]
    /\ constructed = "ok"
    /\ keyStore \in {EmptyMap} \cup {MapOf(n, Stale) : n \in WrittenNames}
    /\ server = FreshServer
    /\ token = NoToken
    /\ declared = BaseDeclared
    /\ op = "keyStoreSet"
    /\ pc = "writers"
    /\ loc = [w \in Writers |-> IdleWriter]
    /\ result = NoResult
    /\ log = <<>>
    /\ pre = [keyStore |-> keyStore, server |-> server, token |-> token]
    /\ hist = NoHist

NextSet == \E w \in Writers : SetCall(w) \/ SetGet(w) \/ SetPut(w)

SpecSet == InitSet /\ [][NextSet]_vars


-----------------------------------------------------------------------------
(* Claims about keyStoreSet                                                *)

\* the writer other than w has not called keyStoreSet
Alone(w) == \A o \in Writers \ {w} : loc[o].pc = "idle" /\ loc[o].done = <<>>

\* the finished calls of writer w
Done(w) == IF pc = "writers" THEN loc[w].done ELSE <<>>

\* call i of the sequence found no value and its Set stored one
Created(d, i) == d[i].get = "NotFound" /\ d[i].set = "ok"

\* C11: keyStoreSet called twice in sequence with the same name (no other
\* writer, the KeyStore answering): the first call, on a name with no value,
\* calls Set, returns no error and its value is stored; the second call
\* returns the already-exists error without calling Set, and the stored
\* value is still the one of the first call.
C11_SecondSetRefused ==
    \A w \in Writers : (pc = "writers" /\ Alone(w)) =>
        LET d == Done(w) IN
        /\ (Len(d) >= 1 /\ d[1].key \notin DOMAIN pre.keyStore /\ d[1].get # "Backend") =>
                d[1].get = "NotFound" /\ d[1].set # "none"
        /\ \A i \in 1..Len(d) : Created(d, i) =>
                /\ d[i].err = ""
                /\ d[i].key \in DOMAIN keyStore
                /\ keyStore[d[i].key] = d[i].val
                /\ \A j \in (i+1)..Len(d) : d[j].key = d[i].key =>
                    /\ d[j].set = "none"
                    /\ d[j].get # "NotFound"
                    /\ (d[j].get = "ok" => d[j].err = "AlreadyExists")

\* two calls in sequence on one name: the first stored, the second refused
C11_Witness ==
    /\ pc = "writers"
    /\ \E w \in Writers :
        /\ Alone(w)
        /\ Len(loc[w].done) = 2
        /\ loc[w].done[1].key = loc[w].done[2].key
        /\ Created(loc[w].done, 1)
        /\ loc[w].done[1].err = ""
        /\ loc[w].done[2].err = "AlreadyExists"
        /\ loc[w].done[2].set = "none"
        /\ keyStore[loc[w].done[1].key] = loc[w].done[1].val

\* C20: keyStoreSet decides on the answer of its own Get alone: a call
\* whose Get answered NotFound calls Set and never returns the
\* already-exists error, whatever another writer has stored since; only a
\* call whose Get found a value is refused. So two writers that both see
\* NotFound for one name both call Set for it.
C20_CheckThenActNotAtomic ==
    pc = "writers" =>
        /\ \A w \in Writers : \A i \in 1..Len(loc[w].done) :
            LET c == loc[w].done[i] IN
            /\ (c.set # "none") <=> (c.get = "NotFound")
            /\ (c.err = "AlreadyExists") <=> (c.get = "ok")
        /\ \A w \in Writers : loc[w].pc = "decide" =>
            (loc[w].nf.notFound <=> loc[w].get = "NotFound")

\* both writers wrote the same absent name: both saw NotFound, both called Set
\* with success, and neither was told the name already exists
C20_Witness ==
    /\ pc = "writers"
    /\ \E key \in WrittenNames :
        /\ key \notin DOMAIN pre.keyStore
        /\ \A w \in Writers :
            /\ Len(loc[w].done) = 1
            /\ loc[w].done[1].key = key
            /\ loc[w].done[1].get = "NotFound"
            /\ loc[w].done[1].set = "ok"
            /\ loc[w].done[1].err = ""
        /\ \E w \in Writers : keyStore[key] = loc[w].done[1].val


-----------------------------------------------------------------------------
(* Claims about sequences of Init calls *)

\* share i of the server is in the KeyStore under the unseal key of index i,
\* for every index below SecretShares
SharesStored ==
    \A i \in 0..(config.SecretShares - 1) :
        /\ <<"vault-unseal-", i>> \in DOMAIN keyStore
        /\ keyStore[<<"vault-unseal-", i>>] = Share(i)

\* C21 (as claimed): whenever an Init call returns success, after any Init
\* calls before it (failed ones included), the KeyStore holds under every
\* unseal key name of an index below SecretShares the share the server
\* issued for that index.
C21_SuccessMeansSharesStored ==
    (op = "Init" /\ pc = "returned" /\ result.ok) => SharesStored


\* C22 (as claimed): on every return of Init, with success or with an error,
\* with a fixed root identifier or without, the client's active credential is
\* the one it was when Init was called.
C22_InitRestoresCredential ==
    (op = "Init" /\ pc = "returned") => token = pre.token


-----------------------------------------------------------------------------
(* Claims about the paths of the auth methods' configuration *)

\* a write of an auth method's own configuration (backend config, role, mapping)
IsAuthWrite(e) == e.op = "logical.Write" /\ e.arg[1] = "auth"

\* how many such writes Configure makes for declared auth method j
WritesOf(j) ==
    LET m == declared.auth[j]
        at == IF m.hasPath THEN m.path ELSE m.type
    IN  Len(CHOOSE q \in AuthWrites(m, at) : TRUE)

RECURSIVE WritesUpTo(_)
WritesUpTo(j) == IF j = 0 THEN 0 ELSE WritesUpTo(j - 1) + WritesOf(j)

\* the declared auth method the k-th of these writes of a Configure is made for
Owner(k) == CHOOSE j \in 1..Len(declared.auth) : WritesUpTo(j - 1) < k /\ k <= WritesUpTo(j)

\* the position of log entry n among the auth writes of the log
Rank(n) == Cardinality({x \in 1..n : IsAuthWrite(log[x])})

\* C23 (as claimed): every write of an auth method's own configuration
\* (backend config, roles, mappings) goes to auth/{path}/..., where path is
\* the one the method was enabled or found at: the declared path when there
\* is one, the type name otherwise.
C23_WritesUnderResolvedPath ==
    op = "Configure" =>
        \A n \in 1..Len(log) : IsAuthWrite(log[n]) =>
            LET m == declared.auth[Owner(Rank(n))]
            IN  log[n].arg[2] = (IF m.hasPath THEN m.path ELSE m.type)

====
